---- MODULE Spec2Model ----
(***************************************************************************)
(* A model of the realm arena allocator (src/src/arena.rs) and of the      *)
(* container views built on it (boxed.rs, array.rs).                        *)
(*                                                                         *)
(* Memory is modelled at byte granularity: `data` is the arena's buffer,   *)
(* a handle is the byte offset of the slot it points to (the code keeps a  *)
(* raw pointer into the buffer; the offset is that pointer minus the       *)
(* buffer's base).  usize is modelled as a WordBits-wide unsigned word so  *)
(* that the arithmetic of Arena::alloc can overflow as it can in the code: *)
(* with overflow checks on (a debug build) an overflow panics, with them   *)
(* off (a release build) it wraps modulo 2^WordBits.                       *)
(***************************************************************************)
EXTENDS Integers, Sequences, FiniteSets, TLC

VARIABLES
    data,        \* Arena.data: the buffer, a function 0..size-1 -> byte
    offset,      \* Arena.offset: the bump cursor
    generation,  \* Arena.generation
    objs,        \* the handles the caller holds: slot -> Box / Array / NoObj
    checks,      \* build profile: TRUE iff integer overflow checks are on
    panicked,    \* TRUE once an operation has panicked (the thread unwinds)
    last         \* the last call: its name, arguments and what it returned

vars == <<data, offset, generation, objs, checks, panicked, last>>

----------------------------------------------------------------------------
(* Bounds of the model *)

\* usize is WordBits wide in the model (64 in the code's usual targets).
WordBits == 5

\* Arena::new(size) is called with size in 0..MaxArena.
MaxArena == 8

\* The arena the array operations run in has ArrayArena bytes.
ArrayArena == 4

\* The arena the box operations run in has BoxArena bytes.
BoxArena == 6

\* reset() is no longer taken once generation has reached MaxGen.
MaxGen == 2

\* Array::new / from_slice are called with len, capacity in 0..MaxCap.
MaxCap == 2

\* Raw allocations are requested for 0..MaxCount slots, and for the large
\* counts of AllocLens.
MaxCount == 3

MaxWord == 2 ^ WordBits

----------------------------------------------------------------------------
(* Types T the generic operations are instantiated with: size_of::<T>()    *)
(* and align_of::<T>().                                                    *)

T_unit == [size |-> 0, align |-> 1]

T_u8 == [size |-> 1, align |-> 1]

T_u16 == [size |-> 2, align |-> 2]

T_u8x3 == [size |-> 3, align |-> 1]

T_u32 == [size |-> 4, align |-> 4]

\* Types raw allocations are requested for.
AllocTypes == {T_unit, T_u8, T_u16, T_u8x3, T_u32}

\* The counts raw allocations are requested with: small ones, and large
\* ones whose byte size does not fit a word.
AllocLens == (0 .. MaxCount) \cup {MaxWord \div 4, MaxWord \div 2, MaxWord - 1}

\* Element types of the containers.
ElemTypes == {T_u8, T_u16}

----------------------------------------------------------------------------
(* Machine arithmetic on words *)

RECURSIVE BitAnd(_, _)
\* x & y
BitAnd(x, y) ==
    IF x = 0 \/ y = 0 THEN 0
    ELSE (x % 2) * (y % 2) + 2 * BitAnd(x \div 2, y \div 2)

\* !x on a word
BitNot(x) == (MaxWord - 1) - x

\* (cursor + align - 1) & !(align - 1), wrapped to the word
AlignUp(cursor, align) == BitAnd((cursor + align - 1) % MaxWord, BitNot(align - 1))

----------------------------------------------------------------------------
(* Arena *)

\* Arena::size
size == Cardinality(DOMAIN data)

\* Arena::occupied
occupied == offset

\* Arena::is_full
is_full == occupied = size

\* The result of Arena::alloc::<T>(len) with the cursor at cur in a buffer
\* of sz bytes: res is "Some" (ptr is the granted offset), "None", or
\* "panic"; cur is the cursor afterwards.
alloc(cur, sz, T, len, chk) ==
    LET sum1 == cur + T.align
        off == AlignUp(cur, T.align)
        prod == T.size * len
        sum2 == off + (prod % MaxWord)
        new_offset == sum2 % MaxWord
        overflow == sum1 >= MaxWord \/ prod >= MaxWord \/ sum2 >= MaxWord
    IN  IF chk /\ overflow
        THEN \* arithmetic overflow panics before anything is written
             [res |-> "panic", ptr |-> 0, cur |-> cur]
        ELSE IF new_offset <= sz
        THEN IF off < sz
             THEN [res |-> "Some", ptr |-> off, cur |-> new_offset]
             ELSE \* &self.data[offset]: index out of bounds
                  [res |-> "panic", ptr |-> 0, cur |-> cur]
        ELSE [res |-> "None", ptr |-> 0, cur |-> cur]

NoObj == [kind |-> "none"]

\* The caller's handle slots: one for a container and one for a second
\* container or a clone of the first.
Slots == {1, 2}

\* Arena::new(size): a zeroed buffer, cursor 0, generation 0.
Arena_new(sz) ==
    /\ data = [i \in 0 .. (sz - 1) |-> 0]
    /\ offset = 0
    /\ generation = 0

\* The state after Arena::new(sz) for some sz of sizes, no handle issued yet.
InitWith(sizes) ==
    /\ \E sz \in sizes : Arena_new(sz)
    /\ objs = [s \in Slots |-> NoObj]
    /\ checks \in BOOLEAN
    /\ panicked = FALSE
    /\ last = [op |-> "new"]

Init == InitWith(0 .. MaxArena)

\* arena.alloc::<T>(len) for a T of types and a len of lens, the handle
\* not kept
AllocWith(types, lens) ==
    /\ ~panicked
    /\ \E T \in types, len \in lens :
         LET r == alloc(offset, size, T, len, checks)
         IN  /\ offset' = r.cur
             /\ panicked' = (r.res = "panic")
             /\ last' = [op |-> "alloc", T |-> T, len |-> len,
                         res |-> r.res, ptr |-> r.ptr]
    /\ UNCHANGED <<data, generation, objs, checks>>

\* Any allocation request, the counts that overflow the word included.
Alloc == AllocWith(AllocTypes, AllocLens)

\* The byte allocations other users of the arena make while containers are
\* in use: of one byte, which leaves the cursor at any alignment, and of
\* the largest count of the word, whose end wraps around.
Alloc_bytes == AllocWith({T_u8}, {1, MaxWord - 1})

\* Handles are not touched by reset; `stale` is bookkeeping of the model
\* (no such field exists in the code) recording that the handle was issued
\* before a reset.
MarkStale(o) == IF "stale" \in DOMAIN o THEN [o EXCEPT !.stale = TRUE] ELSE o

reset_always_bump ==
    /\ ~panicked
    /\ generation < MaxGen
    /\ generation' = generation + 1
    /\ offset' = 0
    /\ objs' = [s \in DOMAIN objs |-> MarkStale(objs[s])]
    /\ last' = [op |-> "reset", before |-> offset, gen |-> generation]
    /\ UNCHANGED <<data, checks, panicked>>

\* Arena::reset counting twice.
reset_twice ==
    /\ ~panicked
    /\ generation < MaxGen
    /\ generation' = IF offset > 0 THEN generation + 2 ELSE generation
    /\ offset' = 0
    /\ objs' = [s \in DOMAIN objs |-> MarkStale(objs[s])]
    /\ last' = [op |-> "reset", before |-> offset, gen |-> generation]
    /\ UNCHANGED <<data, checks, panicked>>

\* Arena::reset clearing the buffer.
reset_zero ==
    /\ ~panicked
    /\ generation < MaxGen
    /\ generation' = IF offset > 0 THEN generation + 1 ELSE generation
    /\ offset' = 0
    /\ data' = [i \in DOMAIN data |-> 0]
    /\ objs' = [s \in DOMAIN objs |-> MarkStale(objs[s])]
    /\ last' = [op |-> "reset", before |-> offset, gen |-> generation]
    /\ UNCHANGED <<checks, panicked>>

\* Arena::reset
reset ==
    /\ ~panicked
    /\ generation < MaxGen
    /\ generation' = IF offset > 0 THEN generation + 1 ELSE generation
    /\ offset' = 0
    /\ objs' = [s \in DOMAIN objs |-> MarkStale(objs[s])]
    /\ last' = [op |-> "reset", before |-> offset, gen |-> generation]
    /\ UNCHANGED <<data, checks, panicked>>

----------------------------------------------------------------------------
(* Typed memory: a value of T is stored little-endian in size_of::<T>()    *)
(* bytes, as on the code's usual targets.                                  *)

RECURSIVE ReadT(_, _, _)
\* *(p as *const T), n bytes wide
ReadT(mem, p, n) ==
    IF n = 0 THEN 0 ELSE mem[p] + 256 * ReadT(mem, p + 1, n - 1)

\* byte i of the little-endian encoding of v
ByteOf(v, i) == (v \div (256 ^ i)) % 256

\* *(p as *mut T) = v
WriteT(mem, p, n, v) ==
    [i \in DOMAIN mem |-> IF p <= i /\ i < p + n THEN ByteOf(v, i - p) ELSE mem[i]]

RECURSIVE WriteSeq(_, _, _, _)
\* the values of vs written as consecutive T slots from byte p on
WriteSeq(mem, p, n, vs) ==
    IF vs = <<>> THEN mem
    ELSE WriteSeq(WriteT(mem, p, n, Head(vs)), p + n, n, Tail(vs))

RECURSIVE CopyForward(_, _, _, _)
\* n bytes copied one by one from src to dst, lowest address first
CopyForward(mem, src, dst, n) ==
    IF n = 0 THEN mem
    ELSE CopyForward([mem EXCEPT ![dst] = mem[src]], src + 1, dst + 1, n - 1)

\* n bytes copied from src to dst as if through a buffer
CopySnapshot(mem, src, dst, n) ==
    [i \in DOMAIN mem |-> IF dst <= i /\ i < dst + n THEN mem[src + (i - dst)] ELSE mem[i]]

\* core::ptr::copy_nonoverlapping(src, dst, n bytes): when the ranges
\* overlap the behaviour is undefined; the outcomes a build produces are a
\* forward copy and a buffered copy (they agree on disjoint ranges).
copy_nonoverlapping(mem, src, dst, n) ==
    {CopyForward(mem, src, dst, n), CopySnapshot(mem, src, dst, n)}

----------------------------------------------------------------------------
(* Array<T>  (src/src/array.rs) *)

\* The element values the caller writes: two values that differ from each
\* other and from the 0 of fresh memory.
Values == {1, 2}

\* The slices passed to from_slice / concat: all sequences of at most
\* MaxCap values.
Slices == UNION {[1 .. n -> Values] : n \in 0 .. MaxCap}

IsArray(o) == o.kind = "array"

\* Deref / DerefMut: the slot i of the array, i in [0, capacity)
Elem(mem, a, i) == ReadT(mem, a.ptr + i * a.T.size, a.T.size)

\* The lowest free handle slot of the caller.
FreeSlots == {s \in DOMAIN objs : objs[s].kind = "none"}

FreeSlot == CHOOSE s \in FreeSlots : \A t \in FreeSlots : s <= t

\* Array::new(arena, len, capacity): res, the handle, the cursor afterwards
array_new(cur, sz, T, len, capacity, chk) ==
    IF capacity < len
    THEN [res |-> "None", cur |-> cur, arr |-> NoObj]
    ELSE LET r == alloc(cur, sz, T, capacity, chk)
         IN  [res |-> r.res, cur |-> r.cur,
              arr |-> IF r.res = "Some"
                      THEN [kind |-> "array", ptr |-> r.ptr, len |-> len,
                            capacity |-> capacity, T |-> T, stale |-> FALSE]
                      ELSE NoObj]

\* Array::new
Array_new ==
    /\ ~panicked
    /\ FreeSlots # {}
    /\ \E T \in ElemTypes, len \in 0 .. MaxCap, capacity \in 0 .. MaxCap :
         LET r == array_new(offset, size, T, len, capacity, checks)
         IN  /\ offset' = r.cur
             /\ panicked' = (r.res = "panic")
             /\ objs' = IF r.res = "Some"
                        THEN [objs EXCEPT ![FreeSlot] = r.arr] ELSE objs
             /\ last' = [op |-> "array_new", T |-> T, len |-> len,
                         capacity |-> capacity, res |-> r.res,
                         slot |-> FreeSlot, before |-> offset]
    /\ UNCHANGED <<data, generation, checks>>

\* Array::concat on handle a with the slice vs: res, the new length, the
\* handle and the memory afterwards
array_concat_partial(mem, a, vs) ==
    LET new_len == a.len + Len(vs)
        room == a.capacity - a.len
    IN  IF new_len <= a.capacity
        THEN [res |-> "Some", len |-> new_len, arr |-> [a EXCEPT !.len = new_len],
              mem |-> WriteSeq(mem, a.ptr + a.len * a.T.size, a.T.size, vs)]
        ELSE [res |-> "None", len |-> 0, arr |-> [a EXCEPT !.len = a.capacity],
              mem |-> WriteSeq(mem, a.ptr + a.len * a.T.size, a.T.size,
                               SubSeq(vs, 1, room))]

array_concat(mem, a, vs) ==
    LET new_len == a.len + Len(vs)
    IN  IF new_len <= a.capacity
        THEN [res |-> "Some", len |-> new_len, arr |-> [a EXCEPT !.len = new_len],
              mem |-> WriteSeq(mem, a.ptr + a.len * a.T.size, a.T.size, vs)]
        ELSE [res |-> "None", len |-> 0, arr |-> a, mem |-> mem]

\* Array::from_slice
Array_from_slice ==
    /\ ~panicked
    /\ FreeSlots # {}
    /\ \E T \in ElemTypes, vs \in Slices :
         LET r == array_new(offset, size, T, 0, Len(vs), checks)
             c == array_concat(data, r.arr, vs)
             ok == r.res = "Some" /\ c.res = "Some"
         IN  /\ offset' = r.cur
             /\ panicked' = (r.res = "panic")
             /\ data' = IF r.res = "Some" THEN c.mem ELSE data
             /\ objs' = IF ok THEN [objs EXCEPT ![FreeSlot] = c.arr] ELSE objs
             /\ last' = [op |-> "from_slice", T |-> T, vs |-> vs,
                         res |-> IF ok \/ r.res # "Some" THEN r.res ELSE "None",
                         slot |-> FreeSlot, before |-> offset]
    /\ UNCHANGED <<generation, checks>>

\* Array::push on handle a: the handle and the memory afterwards
array_push_overwrite(mem, a, value) ==
    IF a.capacity > a.len
    THEN [arr |-> [a EXCEPT !.len = a.len + 1],
          mem |-> WriteT(mem, a.ptr + a.len * a.T.size, a.T.size, value)]
    ELSE IF a.capacity > 0
    THEN [arr |-> a,
          mem |-> WriteT(mem, a.ptr + (a.len - 1) * a.T.size, a.T.size, value)]
    ELSE [arr |-> a, mem |-> mem]

array_push_unchecked(mem, a, value) ==
    IF a.capacity > a.len
    THEN [arr |-> [a EXCEPT !.len = a.len + 1],
          mem |-> WriteT(mem, a.ptr + a.len * a.T.size, a.T.size, value)]
    ELSE [arr |-> [a EXCEPT !.len = a.len + 1], mem |-> mem]

array_push(mem, a, value) ==
    IF a.capacity > a.len
    THEN [arr |-> [a EXCEPT !.len = a.len + 1],
          mem |-> WriteT(mem, a.ptr + a.len * a.T.size, a.T.size, value)]
    ELSE [arr |-> a, mem |-> mem]

\* Array::push
Array_push ==
    /\ ~panicked
    /\ \E s \in DOMAIN objs, value \in Values :
         /\ IsArray(objs[s])
         /\ LET r == array_push(data, objs[s], value)
            IN  /\ data' = r.mem
                /\ objs' = [objs EXCEPT ![s] = r.arr]
                /\ last' = [op |-> "push", slot |-> s, value |-> value,
                            len |-> objs[s].len]
    /\ UNCHANGED <<offset, generation, checks, panicked>>

\* Array::pop on handle a: res, the element returned, the handle afterwards
array_pop_first(mem, a) ==
    IF a.len > 0
    THEN [res |-> "Some", value |-> Elem(mem, a, 0), arr |-> [a EXCEPT !.len = a.len - 1]]
    ELSE [res |-> "None", value |-> 0, arr |-> a]

array_pop(mem, a) ==
    IF a.len > 0
    THEN [res |-> "Some", value |-> Elem(mem, a, a.len - 1),
          arr |-> [a EXCEPT !.len = a.len - 1]]
    ELSE [res |-> "None", value |-> 0, arr |-> a]

\* Array::pop
Array_pop ==
    /\ ~panicked
    /\ \E s \in DOMAIN objs :
         /\ IsArray(objs[s])
         /\ LET r == array_pop(data, objs[s])
            IN  /\ objs' = [objs EXCEPT ![s] = r.arr]
                /\ last' = [op |-> "pop", slot |-> s, res |-> r.res, value |-> r.value]
    /\ UNCHANGED <<data, offset, generation, checks, panicked>>

\* Array::concat
Array_concat ==
    /\ ~panicked
    /\ \E s \in DOMAIN objs, vs \in Slices :
         /\ IsArray(objs[s])
         /\ LET r == array_concat(data, objs[s], vs)
            IN  /\ data' = r.mem
                /\ objs' = [objs EXCEPT ![s] = r.arr]
                /\ last' = [op |-> "concat", slot |-> s, vs |-> vs,
                            res |-> r.res, len |-> r.len]
    /\ UNCHANGED <<offset, generation, checks, panicked>>

\* Array::clear
Array_clear ==
    /\ ~panicked
    /\ \E s \in DOMAIN objs :
         /\ IsArray(objs[s])
         /\ objs' = [objs EXCEPT ![s].len = 0]
         /\ last' = [op |-> "clear", slot |-> s]
    /\ UNCHANGED <<data, offset, generation, checks, panicked>>

\* The number of slots Array::clone asks the arena for: the length of the
\* slice &self[..], which derefs to the whole capacity.
clone_slots_len(a) == a.len

clone_slots(a) == a.capacity

\* Clone for Array: push_array(&self[..]).unwrap(), then a handle with the
\* new pointer and self's len and capacity.
Array_clone ==
    /\ ~panicked
    /\ FreeSlots # {}
    /\ \E s \in DOMAIN objs :
         /\ IsArray(objs[s])
         /\ LET a == objs[s]
                n == clone_slots(a)
                r == array_new(offset, size, a.T, 0, n, checks)
            IN  /\ offset' = r.cur
                /\ panicked' = (r.res # "Some")
                /\ IF r.res = "Some"
                   THEN /\ data' \in copy_nonoverlapping(data, a.ptr, r.arr.ptr,
                                                         n * a.T.size)
                        /\ objs' = [objs EXCEPT ![FreeSlot] =
                                      [kind |-> "array", ptr |-> r.arr.ptr,
                                       len |-> a.len, capacity |-> a.capacity,
                                       T |-> a.T, stale |-> FALSE]]
                   ELSE UNCHANGED <<data, objs>>
                /\ last' = [op |-> "array_clone", slot |-> s, to |-> FreeSlot,
                            res |-> IF r.res = "Some" THEN "Some" ELSE "panic",
                            before |-> offset]
    /\ UNCHANGED <<generation, checks>>

NextArray ==
    \/ Array_new
    \/ Array_from_slice
    \/ Array_push
    \/ Array_pop
    \/ Array_concat
    \/ Array_clear

\* Arrays in an arena of ArrayArena bytes.
InitArray == InitWith({ArrayArena})

SpecArray == InitArray /\ [][NextArray]_vars

\* Arrays and their clones, among other users of the arena.
NextClone ==
    \/ Array_new
    \/ Array_push
    \/ Array_clone
    \/ Alloc_bytes

SpecClone == InitArray /\ [][NextClone]_vars

----------------------------------------------------------------------------
(* Box<T>  (src/src/boxed.rs) *)

IsBox(o) == o.kind = "box"

\* Deref for Box: the value in the slot
deref(mem, b) == ReadT(mem, b.ptr, b.T.size)

\* Box::new(arena): res, the handle, the cursor afterwards.  `from` is
\* bookkeeping of the model: the slot of the handle this one was cloned
\* from, 0 for a handle that is not a clone.
box_new(cur, sz, T, chk) ==
    LET r == alloc(cur, sz, T, 1, chk)
    IN  [res |-> r.res, cur |-> r.cur,
         box |-> IF r.res = "Some"
                 THEN [kind |-> "box", ptr |-> r.ptr, T |-> T,
                       stale |-> FALSE, from |-> 0]
                 ELSE NoObj]

\* Box::from_value(arena, value): new, then *boxed = value
box_from_value(mem, cur, sz, T, value, chk) ==
    LET r == box_new(cur, sz, T, chk)
    IN  [res |-> r.res, cur |-> r.cur, box |-> r.box,
         mem |-> IF r.res = "Some" THEN WriteT(mem, r.box.ptr, T.size, value)
                 ELSE mem]

\* Box::new
Box_new ==
    /\ ~panicked
    /\ FreeSlots # {}
    /\ \E T \in ElemTypes :
         LET r == box_new(offset, size, T, checks)
         IN  /\ offset' = r.cur
             /\ panicked' = (r.res = "panic")
             /\ objs' = IF r.res = "Some"
                        THEN [objs EXCEPT ![FreeSlot] = r.box] ELSE objs
             /\ last' = [op |-> "box_new", T |-> T, res |-> r.res,
                         slot |-> FreeSlot, before |-> offset]
    /\ UNCHANGED <<data, generation, checks>>

\* Box::from_value (Arena::push)
Box_from_value ==
    /\ ~panicked
    /\ FreeSlots # {}
    /\ \E T \in ElemTypes, value \in Values :
         LET r == box_from_value(data, offset, size, T, value, checks)
         IN  /\ offset' = r.cur
             /\ data' = r.mem
             /\ panicked' = (r.res = "panic")
             /\ objs' = IF r.res = "Some"
                        THEN [objs EXCEPT ![FreeSlot] = r.box] ELSE objs
             /\ last' = [op |-> "box_from_value", T |-> T, value |-> value,
                         res |-> r.res, slot |-> FreeSlot, before |-> offset]
    /\ UNCHANGED <<generation, checks>>

\* *boxed = value through DerefMut
Box_deref_mut ==
    /\ ~panicked
    /\ \E s \in DOMAIN objs, value \in Values :
         /\ IsBox(objs[s])
         /\ data' = WriteT(data, objs[s].ptr, objs[s].T.size, value)
         /\ last' = [op |-> "box_write", slot |-> s, value |-> value]
    /\ UNCHANGED <<offset, generation, objs, checks, panicked>>

\* Clone for Box: arena.push(*self.deref()).unwrap(), for the box in slot s
box_clone(mem, cur, sz, b, s, chk) ==
    LET r == box_from_value(mem, cur, sz, b.T, deref(mem, b), chk)
    IN  [res |-> IF r.res = "Some" THEN "Some" ELSE "panic", cur |-> r.cur,
         mem |-> r.mem,
         box |-> IF r.res = "Some" THEN [r.box EXCEPT !.from = s] ELSE NoObj]

\* Box::clone
Box_clone ==
    /\ ~panicked
    /\ FreeSlots # {}
    /\ \E s \in DOMAIN objs :
         /\ IsBox(objs[s])
         /\ LET r == box_clone(data, offset, size, objs[s], s, checks)
            IN  /\ offset' = r.cur
                /\ data' = r.mem
                /\ panicked' = (r.res = "panic")
                /\ objs' = IF r.res = "Some"
                           THEN [objs EXCEPT ![FreeSlot] = r.box] ELSE objs
                /\ last' = [op |-> "box_clone", slot |-> s, to |-> FreeSlot,
                            res |-> r.res, before |-> offset]
    /\ UNCHANGED <<generation, checks>>

NextBox ==
    \/ Box_new
    \/ Box_from_value
    \/ Box_deref_mut
    \/ Box_clone
    \/ Alloc_bytes

\* Boxes in an arena of BoxArena bytes.
InitBox == InitWith({BoxArena})

SpecBox == InitBox /\ [][NextBox]_vars

----------------------------------------------------------------------------
(* ArenaString  (src/src/string.rs): a wrapper around an Array<u8> *)

\* The arena the string operations run in has StringArena bytes.
StringArena == 4

\* ArenaString::new is called with capacity in 0..StrCap.
StrCap == 2

\* The &str values passed in, as their UTF-8 bytes: "", "a", "ab" and the
\* two-byte "é" (a lead byte and a continuation byte).
Strs == {<<>>, <<97>>, <<97, 98>>, <<195, 169>>}

\* The pieces a formatted write delivers to write_str, one call per piece.
Pieces == {<<p>> : p \in Strs} \cup {<<p, q>> : p, q \in Strs}

IsString(o) == o.kind = "string"

\* The handle ArenaString { inner }.  `hist` is bookkeeping of the model
\* (no such field exists in the code): the inputs appended since the
\* string was empty, joined in call order.
string_of(inner) == [kind |-> "string", inner |-> inner, hist |-> <<>>]

RECURSIVE Bytes(_, _, _)
\* the n bytes of memory from p on, as a sequence
Bytes(mem, p, n) ==
    IF n = 0 THEN <<>> ELSE <<mem[p]>> \o Bytes(mem, p + 1, n - 1)

\* as_ref / as_str: the bytes [0, len) of the inner array
as_str(mem, s) == Bytes(mem, s.inner.ptr, s.inner.len)

\* u8 values 0x80..0xBF are UTF-8 continuation bytes
IsContinuation(b) == 128 <= b /\ b < 192

\* str::is_char_boundary(len) on the str Deref yields, which spans the
\* whole capacity: true at the end of the str, else true iff the byte at
\* len does not continue a character.  (Index 0 is always a boundary.)
is_char_boundary(mem, s) ==
    \/ s.inner.len = 0
    \/ s.inner.len = s.inner.capacity
    \/ ~IsContinuation(mem[s.inner.ptr + s.inner.len])

RECURSIVE LexCmp(_, _)
\* <[u8] as Ord>::cmp: lexicographic by byte value
LexCmp(u, v) ==
    IF u = <<>> /\ v = <<>> THEN "Equal"
    ELSE IF u = <<>> THEN "Less"
    ELSE IF v = <<>> THEN "Greater"
    ELSE IF Head(u) < Head(v) THEN "Less"
    ELSE IF Head(u) > Head(v) THEN "Greater"
    ELSE LexCmp(Tail(u), Tail(v))

\* Ord::cmp (and PartialEq::eq, which is cmp = Equal):
\* self.deref()[0..self.len()].cmp(&other.deref()[0..other.len()]); slicing
\* a str off a character boundary panics.
string_cmp(mem, s, t) ==
    IF is_char_boundary(mem, s) /\ is_char_boundary(mem, t)
    THEN LexCmp(as_str(mem, s), as_str(mem, t))
    ELSE "panic"

\* ArenaString::concat on handle s: res, the handle and the memory afterwards
string_concat_overwrite(mem, s, str) ==
    LET r == array_concat(mem, [s.inner EXCEPT !.len = 0], str)
    IN  [res |-> r.res, mem |-> r.mem,
         str |-> IF r.res = "Some"
                 THEN [s EXCEPT !.inner = r.arr, !.hist = @ \o str]
                 ELSE s]

string_concat(mem, s, str) ==
    LET r == array_concat(mem, s.inner, str)
    IN  [res |-> r.res, mem |-> r.mem,
         str |-> IF r.res = "Some"
                 THEN [s EXCEPT !.inner = r.arr, !.hist = @ \o str]
                 ELSE s]

RECURSIVE write_fmt(_, _, _)
\* core::fmt::write: write_str for every piece in turn, returning the
\* error of the first write_str that fails
write_fmt(mem, s, pieces) ==
    IF pieces = <<>> THEN [res |-> "Ok", mem |-> mem, str |-> s]
    ELSE LET r == string_concat(mem, s, Head(pieces))
         IN  IF r.res = "Some" THEN write_fmt(r.mem, r.str, Tail(pieces))
             ELSE [res |-> "Err", mem |-> r.mem, str |-> r.str]

\* ArenaString::new
String_new ==
    /\ ~panicked
    /\ FreeSlots # {}
    /\ \E capacity \in 0 .. StrCap :
         LET r == array_new(offset, size, T_u8, 0, capacity, checks)
         IN  /\ offset' = r.cur
             /\ panicked' = (r.res = "panic")
             /\ objs' = IF r.res = "Some"
                        THEN [objs EXCEPT ![FreeSlot] = string_of(r.arr)] ELSE objs
             /\ last' = [op |-> "str_new", capacity |-> capacity, res |-> r.res,
                         slot |-> FreeSlot, before |-> offset]
    /\ UNCHANGED <<data, generation, checks>>

\* ArenaString::concat
String_concat ==
    /\ ~panicked
    /\ \E s \in DOMAIN objs, str \in Strs :
         /\ IsString(objs[s])
         /\ LET r == string_concat(data, objs[s], str)
            IN  /\ data' = r.mem
                /\ objs' = [objs EXCEPT ![s] = r.str]
                /\ last' = [op |-> "str_concat", slot |-> s, str |-> str,
                            res |-> r.res]
    /\ UNCHANGED <<offset, generation, checks, panicked>>

\* write!(&mut string, ...): fmt::Write for ArenaString
String_write ==
    /\ ~panicked
    /\ \E s \in DOMAIN objs, pieces \in Pieces :
         /\ IsString(objs[s])
         /\ LET r == write_fmt(data, objs[s], pieces)
            IN  /\ data' = r.mem
                /\ objs' = [objs EXCEPT ![s] = r.str]
                /\ last' = [op |-> "str_write", slot |-> s, pieces |-> pieces,
                            res |-> r.res]
    /\ UNCHANGED <<offset, generation, checks, panicked>>

\* ArenaString::clear
String_clear ==
    /\ ~panicked
    /\ \E s \in DOMAIN objs :
         /\ IsString(objs[s])
         /\ objs' = [objs EXCEPT ![s].inner.len = 0, ![s].hist = <<>>]
         /\ last' = [op |-> "str_clear", slot |-> s]
    /\ UNCHANGED <<data, offset, generation, checks, panicked>>

\* a.cmp(&b) / a == b on two strings the caller holds
String_cmp ==
    /\ ~panicked
    /\ \E s \in DOMAIN objs, t \in DOMAIN objs :
         /\ IsString(objs[s]) /\ IsString(objs[t])
         /\ LET r == string_cmp(data, objs[s], objs[t])
            IN  /\ panicked' = (r = "panic")
                /\ last' = [op |-> "str_cmp", slot |-> s, other |-> t, res |-> r]
    /\ UNCHANGED <<data, offset, generation, objs, checks>>

NextString ==
    \/ String_new
    \/ String_concat
    \/ String_clear
    \/ String_cmp

\* Strings in an arena of StringArena bytes.
InitString == InitWith({StringArena})

SpecString == InitString /\ [][NextString]_vars

\* Strings written to through fmt::Write.
NextWrite ==
    \/ String_new
    \/ String_write
    \/ String_clear

SpecWrite == InitString /\ [][NextWrite]_vars

----------------------------------------------------------------------------
(* ArenaTable<V>  (src/src/table.rs): two parallel arrays, of Key and of V *)

\* ArenaTable::new is called with capacity 0 or TableCap.
TableCap == 2

\* The arena the table operations run in holds one table of TableCap
\* entries and TableSpare more bytes, which the key copies take.
TableSpare == 2

\* Key { key: ArenaString, hash: usize } as stored in the key array: one
\* word each for the string's pointer, len and capacity and for the hash (a
\* word of the model is stored in one byte; the arena back-pointer, the
\* same in every string, is left out).
T_Key == [size |-> 4, align |-> 1]

\* The keys passed in: "a", "b" and "!".
TableKeys == {<<97>>, <<98>>, <<33>>}

RECURSIVE BitXor(_, _)
\* x ^ y
BitXor(x, y) ==
    IF x = 0 THEN y
    ELSE IF y = 0 THEN x
    ELSE ((x + y) % 2) + 2 * BitXor(x \div 2, y \div 2)

\* x.rotate_left(1) on a word
RotL(x) == ((2 * x) % MaxWord) + ((2 * x) \div MaxWord)

RECURSIVE hash_bytes(_, _)
\* the hasher's state h after the bytes bs: per byte, rotate, xor, multiply
\* by an odd constant, all on words
hash_bytes(h, bs) ==
    IF bs = <<>> THEN h
    ELSE hash_bytes((BitXor(RotL(h), Head(bs) % MaxWord) * 21) % MaxWord, Tail(bs))

\* fxhash::hash(key) for a &str: its bytes, then the terminator 0xff that
\* Hash for str appends.
fxhash(key) == hash_bytes(0, key \o <<255>>)

\* The hashes of the keys passed in, computed once.  Not injective: two of
\* TableKeys share a hash.
Hashes == [k \in TableKeys |-> fxhash(k)]

\* hash(key), for a key of TableKeys
hash(key) == Hashes[key]

IsTable(o) == o.kind = "table"

\* A Key whose hash field is left zero.
KeyValue_unhashed(ptr, len, capacity, h) ==
    ptr + 256 * len + (256 ^ 2) * capacity

\* A Key as the value written to its slot (fields from the lowest byte on).
KeyValue(ptr, len, capacity, h) ==
    ptr + 256 * len + (256 ^ 2) * capacity + (256 ^ 3) * h

\* keys[i].hash, read from the slot i of the key array
KeyHash(mem, t, i) == mem[t.keys.ptr + i * T_Key.size + 3]

\* &*keys[i].key: the str the stored ArenaString derefs to
KeyStr(mem, t, i) ==
    LET p == t.keys.ptr + i * T_Key.size
    IN  Bytes(mem, mem[p], mem[p + 2])

\* ArenaTable::new(arena, capacity): res, the handle and the cursor
\* afterwards.  `ins` is bookkeeping of the model (no such field exists in
\* the code): the (key, value) pairs inserted since the table was empty.
table_new(cur, sz, capacity, chk) ==
    LET k == array_new(cur, sz, T_Key, 0, capacity, chk)
        v == array_new(k.cur, sz, T_u8, 0, capacity, chk)
    IN  IF k.res # "Some" THEN [res |-> k.res, cur |-> k.cur, tab |-> NoObj]
        ELSE IF v.res # "Some" THEN [res |-> v.res, cur |-> v.cur, tab |-> NoObj]
        ELSE [res |-> "Some", cur |-> v.cur,
              tab |-> [kind |-> "table", keys |-> k.arr, values |-> v.arr,
                       ins |-> <<>>]]

\* get_index returning the last matching slot instead of the first.
get_index_last(mem, t, key) ==
    LET hits == {i \in 0 .. (t.keys.capacity - 1) : KeyHash(mem, t, i) = hash(key)}
    IN  IF hits = {} THEN -1
        ELSE CHOOSE i \in hits : \A j \in hits : i >= j

\* ArenaTable::get_index: the first slot of keys.iter(), which runs over
\* the whole capacity of the key array, whose hash equals hash(key); -1
\* for None
get_index(mem, t, key) ==
    LET hits == {i \in 0 .. (t.keys.capacity - 1) : KeyHash(mem, t, i) = hash(key)}
    IN  IF hits = {} THEN -1
        ELSE CHOOSE i \in hits : \A j \in hits : i <= j

\* ArenaTable::get / contains_key / get_key_value, all through get_index
table_get(mem, t, key) ==
    LET i == get_index(mem, t, key)
    IN  IF i = -1
        THEN [res |-> "None", index |-> i, value |-> 0, key |-> <<>>]
        ELSE [res |-> "Some", index |-> i, value |-> Elem(mem, t.values, i),
              key |-> KeyStr(mem, t, i)]

\* ArenaTable::insert: res ("true", "false" or "panic"), the handle, the
\* memory and the cursor afterwards
table_insert(mem, cur, sz, t, key, value, chk) ==
    IF t.keys.capacity > t.keys.len
    THEN LET a == array_new(cur, sz, T_u8, 0, Len(key), chk)
             c == array_concat(mem, a.arr, key)
         IN  IF a.res # "Some"
             THEN \* push_string(key).unwrap() on None, or alloc panicked
                  [res |-> "panic", tab |-> t, mem |-> mem, cur |-> a.cur]
             ELSE LET k == array_push(c.mem, t.keys,
                                      KeyValue(a.arr.ptr, Len(key), Len(key), hash(key)))
                      v == array_push(k.mem, t.values, value)
                  IN  [res |-> "true", mem |-> v.mem, cur |-> a.cur,
                       tab |-> [t EXCEPT !.keys = k.arr, !.values = v.arr,
                                         !.ins = Append(@, [key |-> key, value |-> value])]]
    ELSE [res |-> "false", tab |-> t, mem |-> mem, cur |-> cur]

\* ArenaTable::new with a capacity of caps
TableNewWith(caps) ==
    /\ ~panicked
    /\ FreeSlots # {}
    /\ \E capacity \in caps :
         LET r == table_new(offset, size, capacity, checks)
         IN  /\ offset' = r.cur
             /\ panicked' = (r.res = "panic")
             /\ objs' = IF r.res = "Some"
                        THEN [objs EXCEPT ![FreeSlot] = r.tab] ELSE objs
             /\ last' = [op |-> "table_new", capacity |-> capacity, res |-> r.res,
                         slot |-> FreeSlot, before |-> offset]
    /\ UNCHANGED <<data, generation, checks>>

Table_new == TableNewWith({0, TableCap})

\* ArenaTable::insert
Table_insert ==
    /\ ~panicked
    /\ \E s \in DOMAIN objs, key \in TableKeys, value \in Values :
         /\ IsTable(objs[s])
         /\ LET r == table_insert(data, offset, size, objs[s], key, value, checks)
            IN  /\ data' = r.mem
                /\ offset' = r.cur
                /\ panicked' = (r.res = "panic")
                /\ objs' = [objs EXCEPT ![s] = r.tab]
                /\ last' = [op |-> "insert", slot |-> s, key |-> key,
                            value |-> value, res |-> r.res]
    /\ UNCHANGED <<generation, checks>>

\* ArenaTable::get / contains_key / get_key_value
Table_get ==
    /\ ~panicked
    /\ \E s \in DOMAIN objs, key \in TableKeys :
         /\ IsTable(objs[s])
         /\ LET r == table_get(data, objs[s], key)
            IN  last' = [op |-> "get", slot |-> s, key |-> key, res |-> r.res,
                         index |-> r.index, value |-> r.value, found |-> r.key]
    /\ UNCHANGED <<data, offset, generation, objs, checks, panicked>>

\* *table.get_mut(key)? = value.  The bookkeeping follows the write when it
\* lands in a populated slot.
Table_get_mut ==
    /\ ~panicked
    /\ \E s \in DOMAIN objs, key \in TableKeys, value \in Values :
         /\ IsTable(objs[s])
         /\ LET t == objs[s]
                i == get_index(data, t, key)
            IN  /\ data' = IF i = -1 THEN data
                           ELSE WriteT(data, t.values.ptr + i * t.values.T.size,
                                       t.values.T.size, value)
                /\ objs' = IF i # -1 /\ i < Len(t.ins)
                           THEN [objs EXCEPT ![s].ins[i + 1].value = value]
                           ELSE objs
                /\ last' = [op |-> "get_mut", slot |-> s, key |-> key,
                            value |-> value, index |-> i]
    /\ UNCHANGED <<offset, generation, checks, panicked>>

\* ArenaTable::clear
Table_clear ==
    /\ ~panicked
    /\ \E s \in DOMAIN objs :
         /\ IsTable(objs[s])
         /\ objs' = [objs EXCEPT ![s].keys.len = 0, ![s].values.len = 0,
                                 ![s].ins = <<>>]
         /\ last' = [op |-> "table_clear", slot |-> s]
    /\ UNCHANGED <<data, offset, generation, checks, panicked>>

\* ArenaTable::iter: keys.iter() zipped with values.iter(), both running
\* over the whole capacity of their array; the pairs (&*k.key, v).  A slot
\* never written holds a zeroed Key, whose string has a null pointer and
\* capacity 0: building a str from it is undefined, and null_str stands for
\* what the build yields there.
table_iter(mem, t, null_str) ==
    [i \in 1 .. t.keys.capacity |->
        <<IF mem[t.keys.ptr + (i - 1) * T_Key.size + 2] = 0
          THEN null_str ELSE KeyStr(mem, t, i - 1),
          Elem(mem, t.values, i - 1)>>]

\* ArenaTable::iter, collected
Table_iter ==
    /\ ~panicked
    /\ \E s \in DOMAIN objs, null_str \in {<<>>, <<0>>} :
         /\ IsTable(objs[s])
         /\ last' = [op |-> "iter", slot |-> s,
                     items |-> table_iter(data, objs[s], null_str)]
    /\ UNCHANGED <<data, offset, generation, objs, checks, panicked>>

NextIter ==
    \/ Table_new
    \/ Table_insert
    \/ Table_clear
    \/ Table_iter

NextTable ==
    \/ Table_new
    \/ Table_insert
    \/ Table_get
    \/ Table_get_mut
    \/ Table_clear

\* Duplicate keys: one table of DupCap entries, in an arena with room for
\* DupCap one-byte key copies.
DupCap == 3

Table_new_dup == TableNewWith({DupCap})

NextDup ==
    \/ Table_new_dup
    \/ Table_insert
    \/ Table_get
    \/ Table_get_mut

InitDup == InitWith({DupCap * (T_Key.size + T_u8.size) + DupCap})

SpecDup == InitDup /\ [][NextDup]_vars

InitTable == InitWith({TableCap * (T_Key.size + T_u8.size) + TableSpare})

SpecTable == InitTable /\ [][NextTable]_vars

SpecIter == InitTable /\ [][NextIter]_vars

----------------------------------------------------------------------------
(* List<T>  (src/src/list.rs): nodes allocated one by one, chained by next *)

\* The arena the list operations run in has ListArena bytes.
ListArena == 12

\* Node<T> { next: Option<*mut Node<T>>, value: T } for T = u8: the tag and
\* the pointer of next, one word each (a word of the model is stored in one
\* byte), the value, and padding up to the alignment.
T_Node == [size |-> 4, align |-> 2]

IsList(o) == o.kind = "list"

\* A Node as the value written to its cell: next (-1 for None) and value.
NodeValue(next, value) ==
    (IF next = -1 THEN 0 ELSE 1 + 256 * next) + (256 ^ 2) * value

\* node.next (-1 for None) and node.value of the node at p
NodeNext(mem, p) == IF mem[p] = 0 THEN -1 ELSE mem[p + 1]

NodeVal(mem, p) == mem[p + 2]

\* List::push linking the new node in front of head.
list_push_front(mem, cur, sz, l, value, chk) ==
    LET r == box_from_value(mem, cur, sz, T_Node, NodeValue(l.head, value), chk)
    IN  IF r.res # "Some"
        THEN [res |-> r.res, list |-> l, mem |-> mem, cur |-> r.cur]
        ELSE [res |-> "Some", mem |-> r.mem, cur |-> r.cur,
              list |-> [l EXCEPT !.head = r.box.ptr,
                                 !.tail = IF l.tail = -1 THEN r.box.ptr ELSE @,
                                 !.count = (@ + 1) % MaxWord,
                                 !.hist = Append(@, value)]]

\* List::push counting the value although the allocation failed.
list_push_count(mem, cur, sz, l, value, chk) ==
    LET r == box_from_value(mem, cur, sz, T_Node, NodeValue(-1, value), chk)
    IN  IF r.res # "Some"
        THEN [res |-> r.res, list |-> [l EXCEPT !.count = (@ + 1) % MaxWord],
              mem |-> mem, cur |-> r.cur]
        ELSE IF l.tail = -1
        THEN [res |-> "Some", mem |-> r.mem, cur |-> r.cur,
              list |-> [l EXCEPT !.head = r.box.ptr, !.tail = r.box.ptr,
                                 !.count = 1, !.hist = Append(@, value)]]
        ELSE [res |-> "Some", cur |-> r.cur,
              mem |-> WriteT(r.mem, l.tail, 2, NodeValue(r.box.ptr, 0)),
              list |-> [l EXCEPT !.tail = r.box.ptr,
                                 !.count = (@ + 1) % MaxWord,
                                 !.hist = Append(@, value)]]

\* List::push: arena.push(Node { next: None, value })?, then the node is
\* linked behind tail.  `hist` and `out` are bookkeeping of the model (no
\* such fields exist in the code): the values pushed and not yet popped,
\* and the values popped.
list_push(mem, cur, sz, l, value, chk) ==
    LET r == box_from_value(mem, cur, sz, T_Node, NodeValue(-1, value), chk)
    IN  IF r.res # "Some"
        THEN [res |-> r.res, list |-> l, mem |-> mem, cur |-> r.cur]
        ELSE IF l.tail = -1
        THEN [res |-> "Some", mem |-> r.mem, cur |-> r.cur,
              list |-> [l EXCEPT !.head = r.box.ptr, !.tail = r.box.ptr,
                                 !.count = 1, !.hist = Append(@, value)]]
        ELSE [res |-> "Some", cur |-> r.cur,
              \* tail.next = node_ptr
              mem |-> WriteT(r.mem, l.tail, 2, NodeValue(r.box.ptr, 0)),
              list |-> [l EXCEPT !.tail = r.box.ptr,
                                 !.count = (@ + 1) % MaxWord,
                                 !.hist = Append(@, value)]]

\* List::pop leaving tail as it is when the list becomes empty.
list_pop_keep_tail(mem, l) ==
    IF l.head = -1
    THEN [res |-> "None", value |-> 0, list |-> l]
    ELSE [res |-> "Some", value |-> NodeVal(mem, l.head),
          list |-> [l EXCEPT !.head = NodeNext(mem, l.head),
                             !.count = (@ + MaxWord - 1) % MaxWord,
                             !.hist = IF @ = <<>> THEN @ ELSE Tail(@),
                             !.out = Append(@, NodeVal(mem, l.head))]]

\* List::pop leaving count as it is.
list_pop_keep_count(mem, l) ==
    IF l.head = -1
    THEN [res |-> "None", value |-> 0, list |-> l]
    ELSE LET next == NodeNext(mem, l.head)
         IN  [res |-> "Some", value |-> NodeVal(mem, l.head),
              list |-> [l EXCEPT !.head = next,
                                 !.tail = IF next = -1 THEN -1 ELSE @,
                                 !.hist = IF @ = <<>> THEN @ ELSE Tail(@),
                                 !.out = Append(@, NodeVal(mem, l.head))]]

\* List::pop: res, the value of the node taken off the head, the handle
list_pop(mem, l) ==
    IF l.head = -1
    THEN [res |-> "None", value |-> 0, list |-> l]
    ELSE LET next == NodeNext(mem, l.head)
         IN  [res |-> "Some", value |-> NodeVal(mem, l.head),
              list |-> [l EXCEPT !.head = next,
                                 !.count = (@ + MaxWord - 1) % MaxWord,
                                 !.tail = IF next = -1 THEN -1 ELSE @,
                                 !.hist = IF @ = <<>> THEN @ ELSE Tail(@),
                                 !.out = Append(@, NodeVal(mem, l.head))]]

RECURSIVE Walk(_, _, _)
\* The nodes met from p by following next, at most n of them.
Walk(mem, p, n) ==
    IF p = -1 \/ n = 0 THEN <<>>
    ELSE <<p>> \o Walk(mem, NodeNext(mem, p), n - 1)

\* List::iter: the values of the nodes from head on
list_iter(mem, l) ==
    LET nodes == Walk(mem, l.head, MaxWord)
    IN  [i \in 1 .. Len(nodes) |-> NodeVal(mem, nodes[i])]

\* List::new (Arena::make_list)
List_new ==
    /\ ~panicked
    /\ FreeSlots # {}
    /\ objs' = [objs EXCEPT ![FreeSlot] =
                   [kind |-> "list", count |-> 0, generation |-> generation,
                    head |-> -1, tail |-> -1, hist |-> <<>>, out |-> <<>>,
                    stale |-> FALSE]]
    /\ last' = [op |-> "list_new", slot |-> FreeSlot]
    /\ UNCHANGED <<data, offset, generation, checks, panicked>>

\* List::push
List_push ==
    /\ ~panicked
    /\ \E s \in DOMAIN objs, value \in Values :
         /\ IsList(objs[s])
         /\ LET r == list_push(data, offset, size, objs[s], value, checks)
            IN  /\ data' = r.mem
                /\ offset' = r.cur
                /\ panicked' = (r.res = "panic")
                /\ objs' = [objs EXCEPT ![s] = r.list]
                /\ last' = [op |-> "list_push", slot |-> s, value |-> value,
                            res |-> r.res]
    /\ UNCHANGED <<generation, checks>>

\* List::pop
List_pop ==
    /\ ~panicked
    /\ \E s \in DOMAIN objs :
         /\ IsList(objs[s])
         /\ LET r == list_pop(data, objs[s])
            IN  /\ objs' = [objs EXCEPT ![s] = r.list]
                /\ last' = [op |-> "list_pop", slot |-> s, value |-> r.value,
                            res |-> r.res]
    /\ UNCHANGED <<data, offset, generation, checks, panicked>>

\* A one-byte allocation by another user of the arena, which leaves the
\* cursor off the alignment of a node.
Alloc_byte == AllocWith({T_u8}, {1})

NextList ==
    \/ List_new
    \/ List_push
    \/ List_pop
    \/ Alloc_byte

InitList == InitWith({ListArena})

SpecList == InitList /\ [][NextList]_vars

----------------------------------------------------------------------------
(* Tables built in an arena other users have allocated from *)

NextCtor ==
    \/ Alloc_byte
    \/ Table_new
    \/ Table_insert

SpecCtor == InitTable /\ [][NextCtor]_vars

----------------------------------------------------------------------------
(* Every operation of Array and ArenaString *)

NextBook ==
    \/ NextArray
    \/ Array_clone
    \/ String_new
    \/ String_concat
    \/ String_clear

SpecBook == InitArray /\ [][NextBook]_vars

----------------------------------------------------------------------------
(* Handles kept across Arena::reset *)

\* The arena whose handles are used after a reset has StaleArena bytes.
StaleArena == 6

NextStale ==
    \/ Array_new
    \/ Array_push
    \/ Box_from_value
    \/ Box_deref_mut
    \/ List_new
    \/ List_push
    \/ reset

InitStale == InitWith({StaleArena})

SpecStale == InitStale /\ [][NextStale]_vars

----------------------------------------------------------------------------
(* Every operation, with resets in between *)

\* The arena all the operations share has GenArena bytes.
GenArena == 2

NextGen ==
    \/ Alloc_byte
    \/ reset
    \/ Box_new
    \/ Box_clone
    \/ Array_new
    \/ Array_push
    \/ Array_pop
    \/ Array_clone
    \/ String_new
    \/ String_concat
    \/ String_clear
    \/ List_new
    \/ List_push
    \/ Table_new
    \/ Table_insert
    \/ Table_clear

InitGen == InitWith({GenArena})

SpecGen == InitGen /\ [][NextGen]_vars

NextArena ==
    \/ Alloc
    \/ reset

SpecArena == Init /\ [][NextArena]_vars

----------------------------------------------------------------------------
(* Properties of the arena (checked under SpecArena) *)

\* The smallest multiple of a that is >= c.
RoundUp(c, a) == ((c + a - 1) \div a) * a

\* C1: an Arena.alloc<T>(count) that does not fit (roundup(cursor, align) +
\* size_of(T) * count > size(), in unbounded arithmetic) returns no handle
\* and leaves cursor, generation and buffer exactly as before the call.
C1_AllocFailsAtomically ==
    [][ (/\ last'.op = "alloc"
         /\ RoundUp(offset, last'.T.align) + last'.T.size * last'.len > size)
        => (/\ last'.res = "None"
            /\ offset' = offset
            /\ generation' = generation
            /\ data' = data) ]_vars

\* A failed allocation whose alignment padding would have moved the cursor.
C1_Witness ==
    /\ last.op = "alloc"
    /\ last.res = "None"
    /\ offset > 0
    /\ RoundUp(offset, last.T.align) > offset

\* C2: in every reachable state 0 <= occupied() <= size(), and occupied()
\* is the sum of the aligned sizes of the allocations granted since the
\* last reset: a granted allocation advances it by its padding plus
\* size_of(T) * count, so that the sum never exceeds the arena size.
C2_OccupiedWithinSize ==
    /\ [](0 <= occupied /\ occupied <= size)
    /\ [][ (last'.op = "alloc" /\ last'.res = "Some")
           => occupied' = RoundUp(occupied, last'.T.align)
                            + last'.T.size * last'.len ]_vars

\* The arena filled to the last byte by granted allocations.
C2_Witness ==
    /\ last.op = "alloc"
    /\ last.res = "Some"
    /\ size > 0
    /\ is_full

\* C3: after reset() occupied() is 0, and generation() is the previous
\* generation plus 1 if the cursor was > 0 before the reset and unchanged
\* if it was 0.
C3_Reset ==
    [][ last'.op = "reset"
        => (/\ occupied' = 0
            /\ generation' = IF occupied > 0 THEN generation + 1 ELSE generation) ]_vars

\* Two 4-byte allocations (occupied() = 8), then a reset: occupied() = 0
\* and generation() = 1.
C3_Witness ==
    /\ last.op = "reset"
    /\ last.before = 8
    /\ last.gen = 0
    /\ occupied = 0
    /\ generation = 1

\* C4: a successful Arena.alloc<T>(count) grants the offset
\* (cursor + a - 1) & ~(a - 1), which is the smallest multiple of a that
\* is >= the old cursor, and sets the cursor to that offset plus
\* size_of(T) * count.
C4_AllocGrantsAligned ==
    [][ (last'.op = "alloc" /\ last'.res = "Some")
        => (/\ last'.ptr = AlignUp(offset, last'.T.align)
            /\ last'.ptr = RoundUp(offset, last'.T.align)
            /\ last'.ptr % last'.T.align = 0
            /\ last'.ptr >= offset
            /\ offset' = last'.ptr + last'.T.size * last'.len) ]_vars

\* A granted allocation that needed padding.
C4_Witness ==
    /\ last.op = "alloc"
    /\ last.res = "Some"
    /\ last.T.align > 1
    /\ last.len > 0
    /\ offset = last.ptr + last.T.size * last.len
    /\ last.ptr > 1

----------------------------------------------------------------------------
(* Properties of Array (checked under SpecArray) *)

\* Every slot of [0, n) of the array reads the same before and after the step.
SameElems(a, b, n) ==
    \A i \in 0 .. (n - 1) : Elem(data', b, i) = Elem(data, a, i)

\* C5: Array.concat(values) is all-or-nothing: if len + |values| <=
\* capacity it copies values to [len, len + |values|) in order, leaves
\* [0, len) unchanged and returns the new length; otherwise it fails and
\* len, capacity, every element and the buffer are unchanged.
C5_ConcatAllOrNothing ==
    [][ last'.op = "concat"
        => LET a == objs[last'.slot]
               b == objs'[last'.slot]
               vs == last'.vs
           IN  IF a.len + Len(vs) <= a.capacity
               THEN /\ last'.res = "Some"
                    /\ last'.len = a.len + Len(vs)
                    /\ b = [a EXCEPT !.len = a.len + Len(vs)]
                    /\ SameElems(a, b, a.len)
                    /\ \A j \in 1 .. Len(vs) : Elem(data', b, a.len + j - 1) = vs[j]
               ELSE /\ last'.res = "None"
                    /\ b = a
                    /\ SameElems(a, b, a.capacity)
                    /\ data' = data ]_vars

\* A concat that failed on an array holding an element already.
C5_Witness ==
    /\ last.op = "concat"
    /\ last.res = "None"
    /\ objs[last.slot].len > 0
    /\ objs[last.slot].len + Len(last.vs) > objs[last.slot].capacity
    /\ Len(last.vs) <= objs[last.slot].capacity

\* C6: Array.push(v) stores v at index len and increments len when
\* len < capacity, leaving [0, len) unchanged; when len = capacity it
\* changes neither len nor any element of [0, capacity).
C6_Push ==
    [][ last'.op = "push"
        => LET a == objs[last'.slot]
               b == objs'[last'.slot]
           IN  IF a.len < a.capacity
               THEN /\ b = [a EXCEPT !.len = a.len + 1]
                    /\ Elem(data', b, a.len) = last'.value
                    /\ SameElems(a, b, a.len)
               ELSE /\ b = a
                    /\ SameElems(a, b, a.capacity)
                    /\ data' = data ]_vars

\* A push onto a full array: its last element is not the value pushed.
C6_Witness ==
    /\ last.op = "push"
    /\ objs[last.slot].capacity > 0
    /\ last.len = objs[last.slot].capacity
    /\ objs[last.slot].len = objs[last.slot].capacity
    /\ Elem(data, objs[last.slot], objs[last.slot].len - 1) # last.value

\* C7: Array.pop() returns the element at index len - 1 and decrements len
\* when len > 0, and returns no value and changes nothing when len = 0; a
\* pop right after a push that was stored returns the value pushed.
C7_Pop ==
    [][ last'.op = "pop"
        => LET a == objs[last'.slot]
               b == objs'[last'.slot]
           IN  /\ data' = data
               /\ IF a.len > 0
                  THEN /\ last'.res = "Some"
                       /\ last'.value = Elem(data, a, a.len - 1)
                       /\ b = [a EXCEPT !.len = a.len - 1]
                  ELSE /\ last'.res = "None"
                       /\ b = a
               /\ (/\ last.op = "push"
                   /\ last.slot = last'.slot
                   /\ last.len < a.capacity)
                  => (last'.res = "Some" /\ last'.value = last.value) ]_vars

\* The pop after the last element was popped: no value.
C7_Witness ==
    /\ last.op = "pop"
    /\ last.res = "None"
    /\ objs[last.slot].capacity > 0
    /\ Elem(data, objs[last.slot], 0) # 0

\* C8: Array.new(len, capacity) fails when len > capacity and then leaves
\* occupied() unchanged; when len <= capacity and the arena has room for
\* capacity slots it reserves exactly those and returns an array reporting
\* that len and that capacity.
C8_ArrayNew ==
    [][ last'.op = "array_new"
        => LET T == last'.T
               end == RoundUp(offset, T.align) + T.size * last'.capacity
           IN  /\ last'.len > last'.capacity
                  => (last'.res = "None" /\ occupied' = occupied /\ objs' = objs)
               /\ (last'.len <= last'.capacity /\ end <= size)
                  => (/\ last'.res = "Some"
                      /\ occupied' = end
                      /\ objs'[last'.slot].len = last'.len
                      /\ objs'[last'.slot].capacity = last'.capacity) ]_vars

\* An array created with room to spare.
C8_Witness ==
    /\ last.op = "array_new"
    /\ last.res = "Some"
    /\ last.len < last.capacity
    /\ last.before > 0
    /\ objs[last.slot].len = last.len
    /\ objs[last.slot].capacity = last.capacity

\* C9 as stated: cloning an array with len < capacity makes the arena
\* reserve len slots.
C9_CloneReservesLen ==
    [][ (/\ last'.op = "array_clone"
         /\ last'.res = "Some"
         /\ objs[last'.slot].len < objs[last'.slot].capacity)
        => LET a == objs[last'.slot]
           IN  occupied' = RoundUp(occupied, a.T.align) + a.len * a.T.size ]_vars

\* The byte ranges [p, p + n) and [q, q + n) have no byte in common.
Disjoint(p, q, n) == p + n <= q \/ q + n <= p

\* C9, amended: a clone that returns has made the arena reserve capacity
\* slots at the aligned cursor (occupied() grows by capacity * size_of(T)
\* plus alignment padding) and reports the original's len and capacity;
\* when the slots reserved do not overlap the original's, they hold a copy
\* of every slot of [0, capacity).
C9_CloneReservesCapacity ==
    [][ (last'.op = "array_clone" /\ last'.res = "Some")
        => LET a == objs[last'.slot]
               c == objs'[last'.to]
           IN  /\ occupied' = RoundUp(occupied, a.T.align) + a.capacity * a.T.size
               /\ c.ptr = RoundUp(occupied, a.T.align)
               /\ c.len = a.len
               /\ c.capacity = a.capacity
               /\ objs'[last'.slot] = a
               /\ Disjoint(a.ptr, c.ptr, a.capacity * a.T.size)
                  => (SameElems(a, c, a.capacity) /\ SameElems(a, a, a.capacity)) ]_vars

\* A clone of an array with 0 < len < capacity whose element was pushed.
C9_Witness ==
    /\ last.op = "array_clone"
    /\ last.res = "Some"
    /\ objs[last.slot].len > 0
    /\ objs[last.slot].len < objs[last.slot].capacity
    /\ Elem(data, objs[last.slot], 0) # 0
    /\ Elem(data, objs[last.to], 0) = Elem(data, objs[last.slot], 0)
    /\ objs[last.to].ptr >= objs[last.slot].ptr + objs[last.slot].capacity
    /\ occupied = objs[last.to].ptr + objs[last.slot].capacity * objs[last.slot].T.size

----------------------------------------------------------------------------
(* Properties of Box (checked under SpecBox) *)

\* A Box::clone step that returned: occupied() has grown by one slot of T
\* (and the padding that aligns the cursor for T), the clone sits in a
\* slot of its own and holds the original's value, which the original
\* keeps.
CloneStep ==
    (last'.op = "box_clone" /\ last'.res = "Some")
    => LET b == objs[last'.slot]
           c == objs'[last'.to]
       IN  /\ occupied' = RoundUp(occupied, b.T.align) + b.T.size
           /\ c.ptr >= occupied
           /\ c.ptr + c.T.size <= occupied'
           /\ c.ptr # b.ptr
           /\ deref(data', c) = deref(data, b)
           /\ deref(data', b) = deref(data, b)
           /\ objs'[last'.slot] = b

\* A write through one box stores the value there and leaves the value of
\* every other box as it was.
WriteStep ==
    last'.op = "box_write"
    => /\ deref(data', objs[last'.slot]) = last'.value
       /\ \A t \in DOMAIN objs :
            (t # last'.slot /\ IsBox(objs[t]))
            => deref(data', objs[t]) = deref(data, objs[t])

\* C10: a Box clone is never an alias: clone allocates one new slot in the
\* arena (occupied() grows by one slot of T, alignment padding allowed for),
\* the clone holds the original's value, and a later write to the original
\* or to the clone leaves the other's value unchanged.
C10_CloneNeverAliases ==
    [][CloneStep /\ WriteStep]_vars

\* A write to the original after the clone was made: the two differ.
C10_Witness ==
    /\ last.op = "box_write"
    /\ \E t \in DOMAIN objs :
         /\ IsBox(objs[t])
         /\ objs[t].from = last.slot
         /\ objs[t].ptr > objs[last.slot].ptr + objs[last.slot].T.size
         /\ deref(data, objs[t]) # 0
         /\ deref(data, objs[t]) # deref(data, objs[last.slot])

----------------------------------------------------------------------------
(* Properties of ArenaString (checked under SpecString and SpecWrite) *)

C12_WriteAtomic ==
    [][ (last'.op = "str_write" /\ last'.res = "Err")
        => LET a == objs[last'.slot]
               b == objs'[last'.slot]
           IN  /\ b.inner.len = a.inner.len
               /\ as_str(data', b) = as_str(data, a) ]_vars

\* A formatted write of two pieces that failed on the second one.
C12_Witness ==
    /\ last.op = "str_write"
    /\ last.res = "Err"
    /\ Len(last.pieces) = 2
    /\ Len(last.pieces[1]) > 0
    /\ Len(objs[last.slot].hist) >= Len(last.pieces[1])

\* C13: eq / cmp of two strings return the lexicographic order of their
\* populated bytes [0, len), whatever the bytes of [len, capacity) are, and
\* do not fail.
C13_CmpPopulatedOnly ==
    [][ last'.op = "str_cmp"
        => last'.res = LexCmp(as_str(data, objs[last'.slot]),
                              as_str(data, objs[last'.other])) ]_vars

\* A comparison of two equal texts, one of them followed by a stale byte
\* that clear() left behind.
C13_Witness ==
    /\ last.op = "str_cmp"
    /\ last.res = "Equal"
    /\ last.slot # last.other
    /\ objs[last.slot].inner.len = 1
    /\ objs[last.slot].inner.capacity > 1
    /\ data[objs[last.slot].inner.ptr + 1] # 0

----------------------------------------------------------------------------
(* Table properties *)

\* C14: insert on a table with len = capacity returns false and changes
\* nothing: the handle (len, keys, hashes, values), the memory and the
\* cursor stay; on a table with len < capacity it returns true and len
\* grows by exactly 1.
C14_Insert ==
    [][ last'.op = "insert"
        => LET a == objs[last'.slot]
               b == objs'[last'.slot]
           IN  IF a.keys.len = a.keys.capacity
               THEN /\ last'.res = "false"
                    /\ b = a
                    /\ data' = data
                    /\ offset' = offset
               ELSE /\ last'.res = "true"
                    /\ b.keys.len = a.keys.len + 1
                    /\ b.values.len = a.values.len + 1 ]_vars

\* The spec's scenario: a table of capacity 2 took two inserts and refused
\* the third; the first key still looks up its value.
C14_Witness ==
    /\ last.op = "insert"
    /\ last.res = "false"
    /\ objs[last.slot].keys.capacity = 2
    /\ objs[last.slot].keys.len = 2
    /\ hash(last.key) \notin {hash(e.key) : e \in {objs[last.slot].ins[1], objs[last.slot].ins[2]}}
    /\ table_get(data, objs[last.slot], objs[last.slot].ins[1].key).value
         = objs[last.slot].ins[1].value
    /\ table_get(data, objs[last.slot], last.key).res = "None"

\* Every pair inserted since the table t was empty is found by its key:
\* get returns its value, contains_key is true, get_key_value returns the
\* key's text and the value.
RoundTrip(t) ==
    \A i \in 1 .. Len(t.ins) :
        LET r == table_get(data, t, t.ins[i].key)
        IN  /\ r.res = "Some"
            /\ r.value = t.ins[i].value
            /\ r.key = t.ins[i].key

\* C15 as stated: a table filled from empty with pairwise-distinct keys
\* returns for every key the value inserted with it.
C15_RoundTripDistinctKeys ==
    \A s \in DOMAIN objs :
        ( /\ IsTable(objs[s])
          /\ \A i, j \in 1 .. Len(objs[s].ins) :
                i # j => objs[s].ins[i].key # objs[s].ins[j].key )
        => RoundTrip(objs[s])

\* C15 amended: a table filled from empty with keys whose hashes are
\* pairwise distinct returns for every key the value inserted with it.
C15_RoundTripDistinctHashes ==
    \A s \in DOMAIN objs :
        ( /\ IsTable(objs[s])
          /\ \A i, j \in 1 .. Len(objs[s].ins) :
                i # j => hash(objs[s].ins[i].key) # hash(objs[s].ins[j].key) )
        => RoundTrip(objs[s])

\* A full table of two keys with different hashes and different values,
\* the second of them just looked up.
C15_Witness ==
    /\ last.op = "get"
    /\ last.res = "Some"
    /\ LET t == objs[last.slot]
       IN  /\ Len(t.ins) = 2
           /\ hash(t.ins[1].key) # hash(t.ins[2].key)
           /\ t.ins[1].value # t.ins[2].value
           /\ last.key = t.ins[2].key
           /\ last.value = t.ins[2].value
           /\ last.found = t.ins[2].key

\* The populated slots of the table t whose stored hash equals hash(key).
Hits(mem, t, key) ==
    {i \in 0 .. (t.keys.len - 1) : KeyHash(mem, t, i) = hash(key)}

\* C16: a lookup (get, contains_key, get_key_value, get_mut) addresses the
\* lowest index i < len whose stored hash equals the hash of the query, and
\* returns none when no stored hash of [0, len) matches.
C16_LookupByHash ==
    [][ last'.op \in {"get", "get_mut"}
        => LET t == objs[last'.slot]
               hits == Hits(data, t, last'.key)
           IN  IF hits = {}
               THEN last'.index = -1
               ELSE /\ last'.index \in hits
                    /\ \A j \in hits : last'.index <= j
                    /\ last'.op = "get"
                         => /\ last'.res = "Some"
                            /\ last'.value = Elem(data, t.values, last'.index) ]_vars

\* After insert(A, x) alone, a lookup of a different key B with the same
\* hash returned x.
C16_Witness ==
    /\ last.op = "get"
    /\ last.res = "Some"
    /\ LET t == objs[last.slot]
       IN  /\ Len(t.ins) = 1
           /\ t.keys.len = 1
           /\ last.key # t.ins[1].key
           /\ hash(last.key) = hash(t.ins[1].key)
           /\ last.index = 0
           /\ last.value = t.ins[1].value

\* The key k was inserted at least twice since the table t was empty.
Dup(t, k) ==
    \E i, j \in 1 .. Len(t.ins) :
        i < j /\ t.ins[i].key = k /\ t.ins[j].key = k

\* The first-inserted entry of the key k.
FirstKey(ins, k) ==
    CHOOSE i \in 1 .. Len(ins) :
        /\ ins[i].key = k
        /\ \A j \in 1 .. (i - 1) : ins[j].key # k

\* The first-inserted entry whose key has the hash of k.
FirstHash(ins, k) ==
    CHOOSE i \in 1 .. Len(ins) :
        /\ hash(ins[i].key) = hash(k)
        /\ \A j \in 1 .. (i - 1) : hash(ins[j].key) # hash(k)

\* Lookups of a duplicated key address the entry first(ins, key): get
\* returns that entry's value.
DupLookup(first(_, _)) ==
    \A s \in DOMAIN objs : \A k \in TableKeys :
        (IsTable(objs[s]) /\ Dup(objs[s], k))
        => LET f == first(objs[s].ins, k)
               r == table_get(data, objs[s], k)
           IN  /\ objs[s].keys.len = Len(objs[s].ins)
               /\ r.res = "Some"
               /\ r.index = f - 1
               /\ r.value = objs[s].ins[f].value

\* Duplicates are kept: an insert of a key already present that returns
\* true adds an entry; get_mut of a duplicated key writes the value of the
\* entry first(ins, key) and nothing else.
DupStep(first(_, _)) ==
    /\ ( /\ last'.op = "insert"
         /\ last'.res = "true"
         /\ \E i \in 1 .. Len(objs[last'.slot].ins) :
               objs[last'.slot].ins[i].key = last'.key )
       => /\ objs'[last'.slot].keys.len = objs[last'.slot].keys.len + 1
          /\ Dup(objs'[last'.slot], last'.key)
    /\ ( /\ last'.op = "get_mut"
         /\ Dup(objs[last'.slot], last'.key) )
       => LET t == objs[last'.slot]
              f == first(t.ins, last'.key)
          IN  /\ last'.index = f - 1
              /\ data' = WriteT(data, t.values.ptr + (f - 1) * t.values.T.size,
                                t.values.T.size, last'.value)

\* C17 as stated: inserting a key twice gives two entries, and lookups of
\* that key address the first-inserted entry of that key.
C17_DuplicatesFirstOfKey ==
    /\ []DupLookup(FirstKey)
    /\ [][DupStep(FirstKey)]_vars

\* C17 amended: inserting a key twice gives two entries, and lookups of that
\* key address the first-inserted entry whose key has the same hash, which
\* is the first-inserted entry of that key when no different key of that
\* hash was inserted before it.
C17_DuplicatesFirstOfHash ==
    /\ []DupLookup(FirstHash)
    /\ [][DupStep(FirstHash)]_vars

\* A key was inserted twice with different values and then updated through
\* get_mut to a third state: the first entry holds the new value, the
\* duplicate keeps its own, and get returns the first entry's.
C17_Witness ==
    /\ last.op = "get_mut"
    /\ LET t == objs[last.slot]
       IN  /\ Len(t.ins) = 2
           /\ t.keys.len = 2
           /\ t.ins[1].key = last.key
           /\ t.ins[2].key = last.key
           /\ last.index = 0
           /\ Elem(data, t.values, 0) = last.value
           /\ Elem(data, t.values, 1) # last.value
           /\ Elem(data, t.values, 1) = t.ins[2].value
           /\ table_get(data, t, last.key).value = last.value

----------------------------------------------------------------------------
(* List properties *)

\* C18: a list is a FIFO.  In every state iter() yields the values pushed
\* and not yet popped, oldest first, and then ends; a pop returns the
\* oldest of them; once all of them are popped head and tail are empty and
\* len() is 0, and a further pop returns no value.
C18_Fifo ==
    /\ [](\A s \in DOMAIN objs :
            IsList(objs[s])
            => /\ list_iter(data, objs[s]) = objs[s].hist
               /\ objs[s].hist = <<>>
                    => /\ objs[s].head = -1
                       /\ objs[s].tail = -1
                       /\ objs[s].count = 0)
    /\ [][ last'.op = "list_pop"
           => LET l == objs[last'.slot]
              IN  IF l.hist = <<>>
                  THEN last'.res = "None"
                  ELSE /\ last'.res = "Some"
                       /\ last'.value = Head(l.hist) ]_vars

\* Three values, not all the same, were pushed onto an empty list (its
\* nodes, the first at offset 0, are still chained in memory) and popped in
\* that order; the pop after them returned no value.
C18_Witness ==
    /\ last.op = "list_pop"
    /\ last.res = "None"
    /\ Len(objs[last.slot].out) = 3
    /\ objs[last.slot].out[1] # objs[last.slot].out[3]
    /\ objs[last.slot].count = 0
    /\ Len(Walk(data, 0, MaxWord)) = 3

\* C19: for every list, count is the number of nodes reachable from head,
\* the tail node's next is empty, tail is the last node reachable from
\* head, and head is empty iff tail is empty iff count is 0.
C19_ListStructure ==
    \A s \in DOMAIN objs :
        IsList(objs[s])
        => LET l == objs[s]
               nodes == Walk(data, l.head, MaxWord)
           IN  /\ l.count = Len(nodes)
               /\ l.tail # -1 => /\ NodeNext(data, l.tail) = -1
                                 /\ nodes # <<>>
                                 /\ nodes[Len(nodes)] = l.tail
               /\ (l.head = -1) = (l.tail = -1)
               /\ (l.head = -1) = (l.count = 0)

\* A list that was pushed, popped and pushed again holds two nodes, head
\* and tail different, after a node was taken off it.
C19_Witness ==
    /\ last.op = "list_push"
    /\ last.res = "Some"
    /\ objs[last.slot].out # <<>>
    /\ objs[last.slot].count = 2
    /\ objs[last.slot].head # objs[last.slot].tail

\* C20: a push that succeeds moves the cursor to the end of one aligned
\* node; a push fails exactly when that node does not fit, and then it
\* returns None and leaves the list handle, every node and the cursor as
\* they were.
C20_PushOneNode ==
    [][ last'.op = "list_push"
        => LET end == RoundUp(offset, T_Node.align) + T_Node.size
           IN  IF end <= size
               THEN /\ last'.res = "Some"
                    /\ offset' = end
                    /\ objs'[last'.slot].tail = end - T_Node.size
               ELSE /\ last'.res = "None"
                    /\ objs' = objs
                    /\ data' = data
                    /\ offset' = offset ]_vars

\* A push onto a list of two nodes that failed, in an arena with bytes left
\* but not enough for a node.
C20_Witness ==
    /\ last.op = "list_push"
    /\ last.res = "None"
    /\ objs[last.slot].count = 2
    /\ offset < size

\* C21: pop on an empty list returns None and leaves head, tail and count;
\* on a list of one node it returns the node's value and leaves head and
\* tail empty and count 0, and the push that follows makes its node head
\* and tail with count 1; on a longer list it returns the head's value,
\* moves head to the next node, lowers count by 1 and leaves tail.
C21_PopCases ==
    [][ /\ last'.op = "list_pop"
           => LET a == objs[last'.slot]
                  b == objs'[last'.slot]
              IN  IF a.head = -1
                  THEN /\ last'.res = "None"
                       /\ b.head = -1 /\ b.tail = a.tail /\ b.count = a.count
                  ELSE /\ last'.res = "Some"
                       /\ last'.value = NodeVal(data, a.head)
                       /\ IF a.count = 1
                          THEN b.head = -1 /\ b.tail = -1 /\ b.count = 0
                          ELSE /\ b.head = NodeNext(data, a.head)
                               /\ b.head # -1
                               /\ b.count = a.count - 1
                               /\ b.tail = a.tail
        /\ ( /\ last'.op = "list_push"
             /\ last'.res = "Some"
             /\ objs[last'.slot].head = -1 )
           => LET b == objs'[last'.slot]
              IN  /\ b.head # -1
                  /\ b.head = b.tail
                  /\ b.count = 1 ]_vars

\* The push that follows the pop of a list's only node: the list had a
\* node popped, and its new node is head and tail with count 1.
C21_Witness ==
    /\ last.op = "list_push"
    /\ last.res = "Some"
    /\ objs[last.slot].out # <<>>
    /\ objs[last.slot].count = 1
    /\ objs[last.slot].head = objs[last.slot].tail
    /\ objs[last.slot].head >= T_Node.size

----------------------------------------------------------------------------
(* Exhaustion, reset and generation *)

\* C22: an insert into a table with len < capacity, in an arena with too
\* little room left for the copy of the key, does not abort: it returns
\* false and leaves the table, the memory and the cursor as they were.
C22_InsertNoAbort ==
    [][ ( /\ last'.op = "insert"
          /\ objs[last'.slot].keys.len < objs[last'.slot].keys.capacity
          /\ offset + Len(last'.key) > size )
        => /\ last'.res = "false"
           /\ ~panicked'
           /\ objs' = objs
           /\ data' = data
           /\ offset' = offset ]_vars

\* An insert into a table with room, after the arena filled up with the
\* copies of earlier keys.
C22_Witness ==
    /\ last.op = "insert"
    /\ objs[last.slot].keys.len < objs[last.slot].keys.capacity
    /\ offset + Len(last.key) > size
    /\ offset > objs[last.slot].values.ptr + objs[last.slot].values.capacity

C25_TableNewAtomic ==
    [][ (last'.op = "table_new" /\ last'.res = "None")
        => /\ offset' = offset
           /\ data' = data
           /\ objs' = objs ]_vars

\* A Table::new of capacity TableCap that failed although its key array
\* fitted at the cursor.
C25_Witness ==
    /\ last.op = "table_new"
    /\ last.res = "None"
    /\ last.capacity = TableCap
    /\ last.before + TableCap * T_Key.size <= size
    /\ last.before + TableCap * (T_Key.size + T_u8.size) > size

\* C26: the two arrays of a table have the same length, at most the
\* capacity; for every i < len the stored hash at i is the hash of the
\* stored key at i, and the key and the value at i are those of the i-th
\* insert since the table was empty; iter() yields these pairs, in the
\* order they were inserted.
C26_ParallelArrays ==
    /\ [](\A s \in DOMAIN objs :
            IsTable(objs[s])
            => LET t == objs[s]
               IN  /\ t.keys.len = t.values.len
                   /\ t.keys.len <= t.keys.capacity
                   /\ t.keys.len = Len(t.ins)
                   /\ \A i \in 1 .. t.keys.len :
                        /\ KeyHash(data, t, i - 1) = fxhash(KeyStr(data, t, i - 1))
                        /\ KeyStr(data, t, i - 1) = t.ins[i].key
                        /\ Elem(data, t.values, i - 1) = t.ins[i].value)
    /\ [][ last'.op = "iter"
           => last'.items = [i \in 1 .. Len(objs[last'.slot].ins) |->
                               <<objs[last'.slot].ins[i].key,
                                 objs[last'.slot].ins[i].value>>] ]_vars

\* iter() of a table filled to its capacity of 2 with two different keys
\* yielded the two pairs in insertion order.
C26_Witness ==
    /\ last.op = "iter"
    /\ LET t == objs[last.slot]
       IN  /\ t.keys.capacity = 2
           /\ Len(t.ins) = 2
           /\ t.ins[1].key # t.ins[2].key
           /\ last.items = <<<<t.ins[1].key, t.ins[1].value>>,
                             <<t.ins[2].key, t.ins[2].value>>>>

\* C27: clear sets both lengths to 0 and leaves the capacity, the cursor,
\* the generation and the memory; a lookup in a table with len 0 returns no
\* match; an insert that succeeds, after a clear as before it, takes fresh
\* arena memory for the copy of its key.
C27_Clear ==
    [][ /\ last'.op = "table_clear"
           => LET a == objs[last'.slot]
                  b == objs'[last'.slot]
              IN  /\ b.keys.len = 0
                  /\ b.values.len = 0
                  /\ b.keys.capacity = a.keys.capacity
                  /\ b.values.capacity = a.values.capacity
                  /\ offset' = offset
                  /\ generation' = generation
                  /\ data' = data
        /\ (last'.op = "get" /\ objs[last'.slot].keys.len = 0)
           => /\ last'.res = "None"
              /\ last'.index = -1
        /\ (last'.op = "insert" /\ last'.res = "true")
           => offset' = offset + Len(last'.key) ]_vars

\* A table that was cleared after an insert accepted an insert again: it
\* holds one entry, and the arena holds the copies of both keys.
C27_Witness ==
    /\ last.op = "insert"
    /\ last.res = "true"
    /\ LET t == objs[last.slot]
       IN  /\ t.keys.capacity = 2
           /\ t.keys.len = 1
           /\ offset = t.values.ptr + t.values.capacity + 2

----------------------------------------------------------------------------
(* Array independence and bookkeeping *)

\* C28: an Array clone is an independent copy: it reports the original's
\* len and holds an equal element at every index of [0, len), its slots
\* are disjoint from the original's, and a later push onto one array leaves
\* the len and the elements of every other array as they were.
C28_CloneIndependent ==
    [][ /\ (last'.op = "array_clone" /\ last'.res = "Some")
           => LET a == objs[last'.slot]
                  c == objs'[last'.to]
              IN  /\ c.len = a.len
                  /\ SameElems(a, c, a.len)
                  /\ SameElems(a, a, a.len)
                  /\ objs'[last'.slot] = a
                  /\ Disjoint(a.ptr, c.ptr, a.capacity * a.T.size)
        /\ last'.op = "push"
           => \A t \in DOMAIN objs :
                (t # last'.slot /\ IsArray(objs[t]))
                => /\ objs'[t] = objs[t]
                   /\ SameElems(objs[t], objs[t], objs[t].len) ]_vars

\* A push onto an array that has a clone holding an element, the clone in
\* slots after the original's: the clone's element is not the one pushed.
C28_Witness ==
    /\ last.op = "push"
    /\ objs[last.slot].len = 2
    /\ \E t \in DOMAIN objs :
         /\ t # last.slot
         /\ IsArray(objs[t])
         /\ objs[t].T = objs[last.slot].T
         /\ objs[t].capacity = objs[last.slot].capacity
         /\ objs[t].len = 1
         /\ objs[t].ptr >= objs[last.slot].ptr
                             + objs[last.slot].capacity * objs[last.slot].T.size
         /\ Elem(data, objs[t], 0) = Elem(data, objs[last.slot], 0)
         /\ Elem(data, objs[t], 1) # Elem(data, objs[last.slot], 1)

\* The Array behind a handle: the handle itself, or the inner array of an
\* ArenaString.
Inner(o) == IF IsString(o) THEN o.inner ELSE o

Tracked(o) == IsArray(o) \/ IsString(o)

\* C29: every Array and ArenaString has 0 <= len <= capacity after any
\* sequence of new / from_slice / push / pop / concat / clear / clone; no
\* operation changes the capacity (or the pointer) of an existing handle;
\* and only construction and clone move the arena's cursor.
C29_Bookkeeping ==
    /\ [](\A s \in DOMAIN objs :
            Tracked(objs[s])
            => /\ 0 <= Inner(objs[s]).len
               /\ Inner(objs[s]).len <= Inner(objs[s]).capacity)
    /\ [][ /\ \A s \in DOMAIN objs :
               Tracked(objs[s])
               => /\ Tracked(objs'[s])
                  /\ Inner(objs'[s]).capacity = Inner(objs[s]).capacity
                  /\ Inner(objs'[s]).ptr = Inner(objs[s]).ptr
           /\ offset' # offset
              => last'.op \in {"array_new", "from_slice", "array_clone", "str_new"}
           /\ last'.op \in {"push", "pop", "concat", "clear", "str_concat", "str_clear"}
              => offset' = offset ]_vars

\* A push has just been refused by a full array, while another array of
\* the caller is full as well.
C29_Witness ==
    /\ last.op = "push"
    /\ last.len = objs[last.slot].capacity
    /\ objs[last.slot].capacity > 0
    /\ \E t \in DOMAIN objs :
         /\ t # last.slot
         /\ IsArray(objs[t])
         /\ objs[t].len = objs[t].capacity

----------------------------------------------------------------------------
(* Disjointness of the granted ranges (checked under SpecArena) *)

\* The bytes of the request recorded in l, without wrapping.
Granted(l) == l.T.size * l.len

\* C30: between two resets the granted ranges are pairwise disjoint, each
\* lies within [0, cursor when granted), and a later range starts at or
\* after the end of every earlier one.  Stated step by step: the cursor
\* never falls without a reset, and a successful allocation grants a range
\* that starts at or after the cursor before it and ends at or before the
\* cursor after it, so that the cursor bounds the end of every range
\* granted since the last reset.
C30_NoOverlap ==
    [][ /\ last'.op # "reset" => offset' >= offset
        /\ (last'.op = "alloc" /\ last'.res = "Some")
           => /\ offset <= last'.ptr
              /\ last'.ptr + Granted(last') <= offset'
              /\ offset' <= size ]_vars

\* A non-empty range has been granted that ends beyond the cursor, after
\* an earlier allocation had moved the cursor off 0.
C30_Witness ==
    /\ last.op = "alloc"
    /\ last.res = "Some"
    /\ last.ptr > 0
    /\ Granted(last) > 0
    /\ last.ptr + Granted(last) > offset

----------------------------------------------------------------------------
(* Zero-sized requests and word arithmetic (checked under SpecArena) *)

\* C31: Arena.alloc<T>(0) never aborts: in every arena state, a full arena
\* and an arena of size 0 included, it returns a handle or no handle.
C31_ZeroNeverAborts ==
    [][ (last'.op = "alloc" /\ last'.len = 0)
        => (/\ last'.res \in {"Some", "None"}
            /\ ~panicked') ]_vars

\* alloc::<u8>(0) has aborted in a non-empty arena filled to the last byte.
C31_Witness ==
    /\ last.op = "alloc"
    /\ last.len = 0
    /\ last.T = T_u8
    /\ last.res = "panic"
    /\ panicked
    /\ size > 0
    /\ is_full

\* C32: the bounds check of Arena.alloc is sound under word arithmetic:
\* for every count n, those whose size_of(T) * n or aligned + size_of(T) * n
\* exceeds the largest word included, a range is granted only if the
\* mathematical value aligned + size_of(T) * n is <= size().
C32_BoundsCheckSound ==
    [][ (last'.op = "alloc" /\ last'.res = "Some")
        => RoundUp(offset, last'.T.align) + last'.T.size * last'.len <= size ]_vars

\* A request for more bytes than the whole arena holds has been granted.
C32_Witness ==
    /\ last.op = "alloc"
    /\ last.res = "Some"
    /\ size > 0
    /\ last.T.size * last.len > size
    /\ ~panicked

====
